---------------------------- MODULE Spec2Model ----------------------------
(***************************************************************************)
(* Model of the motivation-level-checker application:                      *)
(*   src/src/models/mood_analyzer.py        MoodAnalyzer                   *)
(*   src/src/motivation_checker/data/preprocessing.py  TextPreprocessor   *)
(*   src/src/motivation_checker/api/main.py POST /analyze                  *)
(*   src/src/data/ingestion.py              JournalDataLoader              *)
(*   src/src/models/train.py                MoodModelTrainer               *)
(*                                                                         *)
(* Numbers.  Python floats are modelled as fixed-point integers:           *)
(*   polarity, subjectivity   in units of 1/PolScale   (1.0 = 10000)       *)
(*   confidence, similarity   in units of 1/ConfScale  (1.0 = 10)          *)
(*   raw motivation score     in units of 1/ScoreScale (1.0 = 400), the    *)
(*       unit in which (0.5*p + 0.5*h*c + 1)*50 is an integer              *)
(*   reported values          polarity/subjectivity in 1/1000 (3 decimals),*)
(*                            motivation_level in 1/100 (2 decimals)       *)
(* A Python dict is a TLA+ record; "key in dict" is  key \in DOMAIN dict.  *)
(* A str is a sequence of one-character strings.                           *)
(***************************************************************************)
EXTENDS Integers, Sequences, FiniteSets, TLC

VARIABLES moodLog, scoreCall, analysis, http, prep, entries, loaderCall,
          trainer, files, trainerCall, predicted,
          instance, requests, frames

vars == <<moodLog, scoreCall, analysis, http, prep, entries, loaderCall,
          trainer, files, trainerCall, predicted,
          instance, requests, frames>>

\* the variables of the MoodAnalyzer and of POST /analyze
analyzerVars == <<moodLog, scoreCall, analysis, http>>

\* the variables of the other components
otherVars == <<prep, entries, loaderCall, trainer, files, trainerCall,
               predicted, instance, requests, frames>>

\* the variables of the JournalDataLoader
loaderVars == <<entries, loaderCall>>

\* the variables of the MoodModelTrainer and of the model files on disk
trainerVars == <<trainer, files, trainerCall, predicted>>

\* the variables of the server: the shared MoodAnalyzer instance, the
\* requests in flight and the frames of their handler calls
serverVars == <<instance, requests, frames>>

---------------------------------------------------------------------------
(* Fixed-point units *)

PolScale == 10000

ConfScale == 10

\* (0.5*P/PolScale + 0.5*(H/ConfScale)*(C/ConfScale) + 1) * 50, times 400
ScoreScale == 400

---------------------------------------------------------------------------
(* Bounds of the model *)

\* polarity inputs: every multiple of 0.1 in [-1,1], and the values within
\* Near units of 1/PolScale of one
Near == 1

\* external similarity readings may leave the nominal range [-1,1] by this
\* many units of 1/ConfScale (floating-point cosine of near-parallel vectors)
SimExcess == 1

\* a text matches at most this many keywords of either keyword set
MaxKeywords == 3

PolarityGrid == { g * (PolScale \div 10) : g \in -10..10 }

PolarityValues ==
  { p \in { g + d : g \in PolarityGrid, d \in -Near..Near } :
      -PolScale <= p /\ p <= PolScale }

---------------------------------------------------------------------------
(* MoodAnalyzer.MOOD_CATEGORIES: a dict, iterated in declaration order *)

\* a table whose neutral bucket ends at 0.3
MOOD_CATEGORIES_WideNeutral ==
  << [name |-> "very_negative", lower |-> -10000, upper |-> -6000],
     [name |-> "negative",      lower |-> -6000,  upper |-> -2000],
     [name |-> "neutral",       lower |-> -2000,  upper |-> 3000],
     [name |-> "positive",      lower |-> 3000,   upper |-> 6000],
     [name |-> "very_positive", lower |-> 6000,   upper |-> 10000] >>

MOOD_CATEGORIES ==
  << [name |-> "very_negative", lower |-> -10000, upper |-> -6000],
     [name |-> "negative",      lower |-> -6000,  upper |-> -2000],
     [name |-> "neutral",       lower |-> -2000,  upper |-> 2000],
     [name |-> "positive",      lower |-> 2000,   upper |-> 6000],
     [name |-> "very_positive", lower |-> 6000,   upper |-> 10000] >>

MoodNames == { MOOD_CATEGORIES[i].name : i \in 1..Len(MOOD_CATEGORIES) }

\* a bucket test that is closed above and open below
InBucket_UpperInclusive(bucket, polarity) ==
  bucket.lower < polarity /\ polarity <= bucket.upper

\* a bucket test that is open at both ends
InBucket_Open(bucket, polarity) ==
  bucket.lower < polarity /\ polarity < bucket.upper

\* a bucket test that is closed at both ends
InBucket_Closed(bucket, polarity) ==
  bucket.lower <= polarity /\ polarity <= bucket.upper

\* the bucket test of the scan:  lower <= polarity < upper
InBucket(bucket, polarity) ==
  bucket.lower <= polarity /\ polarity < bucket.upper

RECURSIVE ScanBuckets(_, _)
ScanBuckets(i, polarity) ==
  IF i > Len(MOOD_CATEGORIES)
    THEN "very_positive"
    ELSE IF InBucket(MOOD_CATEGORIES[i], polarity)
           THEN MOOD_CATEGORIES[i].name
           ELSE ScanBuckets(i + 1, polarity)

get_mood_category(polarity) == ScanBuckets(1, polarity)

\* line 87 is reached: the loop ended without a return
FallbackReached(polarity) ==
  \A i \in 1..Len(MOOD_CATEGORIES) : ~InBucket(MOOD_CATEGORIES[i], polarity)

---------------------------------------------------------------------------
(* MoodAnalyzer.calculate_motivation_score *)

\* confidence of the classifier's first score entry (a softmax probability)
ConfValues == {0, ConfScale \div 2, ConfScale}

\* cosine similarity of the label embedding and a mood-name embedding
SimValues == {-(ConfScale + SimExcess), 7, ConfScale + SimExcess}

\* what transformer_pipeline, get_embedding and similarity supply in one call:
\* tf_score, and sim for each key of MOOD_CATEGORIES
ClassifierReadings ==
  [ tf_score : ConfValues, sim : [MoodNames -> SimValues] ]

\* the text argument of calculate_motivation_score, which the function only
\* hands to the classifier: a text is represented by the number of
\* high-motivation and of low-motivation keywords it contains
KeywordSignals == [ high : 0..MaxKeywords, low : 0..MaxKeywords ]

\* a loop that compares each sim with tf_score, not with highest_score: it
\* keeps the last similarity above tf_score
RECURSIVE HighestScore_AgainstTfScore(_, _, _)
HighestScore_AgainstTfScore(i, highest_score, reading) ==
  IF i > Len(MOOD_CATEGORIES)
    THEN highest_score
    ELSE LET sim == reading.sim[MOOD_CATEGORIES[i].name]
         IN  HighestScore_AgainstTfScore(i + 1,
               IF sim > reading.tf_score THEN sim ELSE highest_score, reading)

\* lines 106-110: for mood in MOOD_CATEGORIES.keys(): if sim > highest_score
RECURSIVE HighestScore(_, _, _)
HighestScore(i, highest_score, reading) ==
  IF i > Len(MOOD_CATEGORIES)
    THEN highest_score
    ELSE LET sim == reading.sim[MOOD_CATEGORIES[i].name]
         IN  HighestScore(i + 1,
               IF sim > highest_score THEN sim ELSE highest_score, reading)

\* the unit of combined_score: 1.0 is CombinedUnit
CombinedUnit == 2 * PolScale * ConfScale * ConfScale

\* the weights 0.6 and 0.4 in place of 0.5 and 0.5
CombinedScore_SixtyForty(polarity, highest_score, tf_score) ==
  (6 * polarity * ConfScale * ConfScale
     + 4 * highest_score * tf_score * PolScale) \div 5

\* line 111:  combined_score = 0.5 * polarity + (0.5 * highest_score * tf_score)
CombinedScore(polarity, highest_score, tf_score) ==
  polarity * ConfScale * ConfScale + highest_score * tf_score * PolScale

\* line 114, in units of 1/ScoreScale:  (combined_score + 1) * 50
\* (one unit of 1/ScoreScale is CombinedUnit / (50 * ScoreScale) units of
\* combined_score, and every combined_score is a multiple of it)
ToScale(combined) ==
  (combined + CombinedUnit) \div (CombinedUnit \div (50 * ScoreScale))

\* no clipping
clip_Identity(x, lo, hi) == x

\* np.clip
clip(x, lo, hi) == IF x < lo THEN lo ELSE IF x > hi THEN hi ELSE x

calculate_motivation_score(polarity, reading) ==
  LET tf_score == reading.tf_score
      highest_score == HighestScore(1, tf_score, reading)
      combined_score == CombinedScore(polarity, highest_score, tf_score)
      motivation_score == ToScale(combined_score)
  IN  clip(motivation_score, 0, 100 * ScoreScale)

---------------------------------------------------------------------------
(* Text: a str is a sequence of characters *)

\* characters \s matches and str.strip() / str.split() treat as blank
WhitespaceChars == {" ", "\t", "\n"}

\* characters \w matches
WordChars == {"a", "b", "h", "p", "s", "t", "w", "A", "B", "W", "0", "_"}

\* the punctuation clean_text keeps:  . , ! ? -
KeptPunctuation == {".", ",", "!", "?", "-"}

IsSpace(c) == c \in WhitespaceChars

\* text.strip() == "" or text == ""
IsBlank(text) == \A i \in 1..Len(text) : IsSpace(text[i])

\* len(text.split()): the number of maximal runs of non-blank characters
WordCount(text) ==
  Cardinality({ i \in 1..Len(text) :
                  /\ ~IsSpace(text[i])
                  /\ (i = 1 \/ IsSpace(text[i - 1])) })

\* the last index of the run of non-blank characters that holds index i
RECURSIVE RunEnd(_, _)
RunEnd(text, i) ==
  IF i < Len(text) /\ ~IsSpace(text[i + 1]) THEN RunEnd(text, i + 1) ELSE i

\* text[i:] starts with word
StartsWith(text, i, word) ==
  /\ i + Len(word) - 1 <= Len(text)
  /\ \A k \in 1..Len(word) : text[i + k - 1] = word[k]

\* word followed by \S+ matches at i: the index the match ends at, or 0
WordThenRun(text, i, word) ==
  IF /\ StartsWith(text, i, word)
     /\ i + Len(word) <= Len(text)
     /\ ~IsSpace(text[i + Len(word)])
    THEN RunEnd(text, i + Len(word))
    ELSE 0

\* r'http\S+|www\S+|https\S+' at i, the alternatives tried in order
UrlMatchEnd(text, i) ==
  LET via_http  == WordThenRun(text, i, <<"h", "t", "t", "p">>)
      via_www   == WordThenRun(text, i, <<"w", "w", "w">>)
      via_https == WordThenRun(text, i, <<"h", "t", "t", "p", "s">>)
  IN  IF via_http > 0 THEN via_http ELSE IF via_www > 0 THEN via_www ELSE via_https

\* r'\S+@\S+' at i: a run of non-blank characters from i with an "@" after
\* its first character and before its last
EmailMatchEnd(text, i) ==
  IF /\ ~IsSpace(text[i])
     /\ \E j \in (i + 1)..(RunEnd(text, i) - 1) : text[j] = "@"
    THEN RunEnd(text, i)
    ELSE 0

\* re.sub(pattern, '', text): leftmost matches, left to right, not overlapping
RECURSIVE RemoveUrls(_, _)
RemoveUrls(text, i) ==
  IF i > Len(text) THEN << >>
  ELSE LET e == UrlMatchEnd(text, i)
       IN  IF e > 0 THEN RemoveUrls(text, e + 1)
                    ELSE <<text[i]>> \o RemoveUrls(text, i + 1)

RECURSIVE RemoveEmails(_, _)
RemoveEmails(text, i) ==
  IF i > Len(text) THEN << >>
  ELSE LET e == EmailMatchEnd(text, i)
       IN  IF e > 0 THEN RemoveEmails(text, e + 1)
                    ELSE <<text[i]>> \o RemoveEmails(text, i + 1)

\* re.sub(r'[^\w\s.,!?-]', '', text)
IsKeptChar(c) == c \in WordChars \cup WhitespaceChars \cup KeptPunctuation

RemoveSpecial(text) == SelectSeq(text, IsKeptChar)

\* the last index of the run of blank characters that holds index i
RECURSIVE RunEndOfSpace(_, _)
RunEndOfSpace(text, i) ==
  IF i < Len(text) /\ IsSpace(text[i + 1]) THEN RunEndOfSpace(text, i + 1) ELSE i

\* re.sub(r'\s+', ' ', text)
RECURSIVE CollapseWhitespace(_, _)
CollapseWhitespace(text, i) ==
  IF i > Len(text) THEN << >>
  ELSE IF IsSpace(text[i])
         THEN <<" ">> \o CollapseWhitespace(text, RunEndOfSpace(text, i) + 1)
         ELSE <<text[i]>> \o CollapseWhitespace(text, i + 1)

\* str.strip()
RECURSIVE Strip(_)
Strip(text) ==
  IF text = << >> THEN text
  ELSE IF IsSpace(Head(text)) THEN Strip(Tail(text))
  ELSE IF IsSpace(text[Len(text)]) THEN Strip(SubSeq(text, 1, Len(text) - 1))
  ELSE text

\* TextPreprocessor.clean_text
clean_text(text) ==
  LET no_urls    == RemoveUrls(text, 1)
      no_emails  == RemoveEmails(no_urls, 1)
      no_special == RemoveSpecial(no_emails)
  IN  Strip(CollapseWhitespace(no_special, 1))

\* str.lower() on one character
LowerChar(c) ==
  CASE c = "A" -> "a" [] c = "B" -> "b" [] c = "W" -> "w" [] OTHER -> c

Lower(text) == [i \in 1..Len(text) |-> LowerChar(text[i])]

\* text.split()
RECURSIVE Split(_, _)
Split(text, i) ==
  IF i > Len(text) THEN << >>
  ELSE IF IsSpace(text[i]) THEN Split(text, i + 1)
  ELSE <<SubSeq(text, i, RunEnd(text, i))>> \o Split(text, RunEnd(text, i) + 1)

\* ' '.join(tokens)
RECURSIVE Join(_)
Join(tokens) ==
  IF tokens = << >> THEN << >>
  ELSE IF Len(tokens) = 1 THEN tokens[1]
  ELSE tokens[1] \o <<" ">> \o Join(Tail(tokens))

\* the words of nltk's English stopword list over the model's characters
STOPWORDS == { <<"a">>, <<"s">>, <<"t">>, <<"a", "s">>, <<"a", "t">>,
               <<"h", "a", "s">>, <<"w", "a", "s">> }

IsNotStopword(word) == word \notin STOPWORDS

\* a pipeline that drops the stopwords before it lowercases
preprocess_StopwordsFirst(self, text) ==
  LET cleaned == clean_text(text)
      kept == IF self.remove_stopwords
                THEN Join(SelectSeq(Split(cleaned, 1), IsNotStopword))
                ELSE cleaned
  IN  IF self.lowercase THEN Lower(kept) ELSE kept

\* TextPreprocessor.preprocess; self is the TextPreprocessor's configuration
preprocess(self, text) ==
  LET cleaned == clean_text(text)
      lowered == IF self.lowercase THEN Lower(cleaned) ELSE cleaned
  IN  IF self.remove_stopwords
        THEN Join(SelectSeq(Split(lowered, 1), IsNotStopword))
        ELSE lowered

---------------------------------------------------------------------------
(* MoodAnalyzer.analyze *)

\* round(x, ndigits) of the value n/d, as an integer: ties go to the even one
RoundHalfEven(n, d) ==
  LET q == n \div d
      r == n - q * d
  IN  IF 2 * r < d THEN q
      ELSE IF 2 * r > d THEN q + 1
      ELSE IF q % 2 = 0 THEN q ELSE q + 1

\* round(polarity, 3) and round(subjectivity, 3), in units of 1/1000
Round3(x) == RoundHalfEven(x * 1000, PolScale)

\* round(motivation_level, 2), in units of 1/100
Round2(score) == RoundHalfEven(score * 100, ScoreScale)

\* a category rule with strict comparisons
MotivationCategory_Strict(motivation_level) ==
  IF motivation_level > 70 * ScoreScale THEN "high"
  ELSE IF motivation_level > 40 * ScoreScale THEN "moderate"
  ELSE "low"

\* lines 151-156
MotivationCategory(motivation_level) ==
  IF motivation_level >= 70 * ScoreScale THEN "high"
  ELSE IF motivation_level >= 40 * ScoreScale THEN "moderate"
  ELSE "low"

\* the dict of lines 129-137 and 172-180; motivation_level 50.0
SentinelResult(error) ==
  [ error |-> error,
    mood |-> "neutral",
    motivation_level |-> 5000,
    sentiment |-> [polarity |-> 0, subjectivity |-> 0] ]

\* the dict of lines 158-168
SuccessResult(text, polarity, subjectivity, mood, motivation_level) ==
  [ mood |-> mood,
    motivation_level |-> Round2(motivation_level),
    motivation_category |-> MotivationCategory(motivation_level),
    sentiment |-> [polarity |-> Round3(polarity),
                   subjectivity |-> Round3(subjectivity)],
    text_length |-> Len(text),
    word_count |-> WordCount(text) ]

\* subjectivity readings, in units of 1/PolScale
SubjectivityValues == {0, 4286, PolScale}

\* TextBlob(text).sentiment: a reading, or an exception
SentimentOutcomes ==
  [ raises : {FALSE}, polarity : PolarityValues,
    subjectivity : SubjectivityValues ]
  \cup [ raises : {TRUE}, message : {"sentiment engine failed"} ]

\* the classifier readings the analysis draws from: those of
\* ClassifierReadings with one similarity for all moods
UniformReadings ==
  { r \in ClassifierReadings :
      \A m \in MoodNames, n \in MoodNames : r.sim[m] = r.sim[n] }

\* transformer_pipeline(text) and the embeddings: a reading, or an exception
ClassifierOutcomes ==
  [ raises : {FALSE}, reading : UniformReadings ]
  \cup [ raises : {TRUE}, message : {"classifier failed"} ]

\* lines 140-168, the body of the try statement: what it returns, or the
\* exception it raises, and the external calls it makes
TryBody(text, sentiment, classifier) ==
  IF sentiment.raises
    THEN [ raised |-> TRUE, message |-> sentiment.message,
           sentiment_calls |-> 1, classifier_calls |-> 0 ]
  ELSE IF classifier.raises
    THEN [ raised |-> TRUE, message |-> classifier.message,
           sentiment_calls |-> 1, classifier_calls |-> 1,
           polarity |-> sentiment.polarity ]
  ELSE LET polarity == sentiment.polarity
           mood == get_mood_category(polarity)
           motivation_level ==
             calculate_motivation_score(polarity, classifier.reading)
       IN  [ raised |-> FALSE,
             sentiment_calls |-> 1, classifier_calls |-> 1,
             polarity |-> polarity,
             motivation_level |-> motivation_level,
             value |-> SuccessResult(text, polarity, sentiment.subjectivity,
                                     mood, motivation_level) ]

\* the test of line 128 with  `not text`  alone
IsEmptyInput_NoStrip(text) == text = << >>

\* line 128:  if not text or not text.strip()
IsEmptyInput(text) == text = << >> \/ IsBlank(text)

\* lines 129-137: the return for an empty input
EmptyReturn ==
  [ path |-> "empty", propagated |-> FALSE, raised |-> FALSE,
    sentiment_calls |-> 0, classifier_calls |-> 0,
    result |-> SentinelResult("Empty text provided") ]

\* a try statement without the except clause: the exception reaches the
\* caller
TryExcept_NoExcept(body) ==
  IF body.raised
    THEN [ path |-> "raise", propagated |-> TRUE, raised |-> TRUE,
           exception |-> body.message,
           sentiment_calls |-> body.sentiment_calls,
           classifier_calls |-> body.classifier_calls ]
    ELSE [ path |-> "success", propagated |-> FALSE, raised |-> FALSE,
           sentiment_calls |-> body.sentiment_calls,
           classifier_calls |-> body.classifier_calls,
           polarity |-> body.polarity,
           motivation_level |-> body.motivation_level,
           result |-> body.value ]

\* lines 139-180: try: ... return {...}  except Exception as e: return {...}
\* with "error": str(e)
TryExcept(body) ==
  IF body.raised
    THEN [ path |-> "except", propagated |-> FALSE, raised |-> TRUE,
           exception |-> body.message,
           sentiment_calls |-> body.sentiment_calls,
           classifier_calls |-> body.classifier_calls,
           result |-> SentinelResult(body.message) ]
    ELSE [ path |-> "success", propagated |-> FALSE, raised |-> FALSE,
           sentiment_calls |-> body.sentiment_calls,
           classifier_calls |-> body.classifier_calls,
           polarity |-> body.polarity,
           motivation_level |-> body.motivation_level,
           result |-> body.value ]

\* MoodAnalyzer.analyze(text), with what the external engines do when called.
\* path: the return statement taken; raised: an exception was raised in the
\* try body (exception: its message); propagated: it left analyze;
\* polarity, motivation_level: the locals of the success path.
analyze(text, sentiment, classifier) ==
  IF IsEmptyInput(text)
    THEN EmptyReturn
    ELSE TryExcept(TryBody(text, sentiment, classifier))

---------------------------------------------------------------------------
(* POST /analyze *)

\* Field(..., min_length=1) of JournalEntryRequest.text
MinLength == 1

\* JournalEntryRequest accepts everything
JournalEntryRequest_NoMinLength(entry) == TRUE

\* JournalEntryRequest: the request passes validation
JournalEntryRequest(entry) == Len(entry.text) >= MinLength

\* text_preprocessor = TextPreprocessor(lowercase=False, remove_stopwords=False)
text_preprocessor == [lowercase |-> FALSE, remove_stopwords |-> FALSE]

\* the fields of AnalysisResponse without a default
AnalysisResponseRequired ==
  { "mood", "motivation_level", "motivation_category", "sentiment",
    "text_length", "word_count", "timestamp" }

\* AnalysisResponse(**result) validates
AnalysisResponse(result) == AnalysisResponseRequired \subseteq DOMAIN result

\* result["timestamp"] = datetime.now().isoformat()
WithTimestamp(result) ==
  [ k \in DOMAIN result \cup {"timestamp"} |->
      IF k = "timestamp" THEN "now" ELSE result[k] ]

\* lines 95-98 of the handler: the text given to the analyzer
HandlerText(entry) ==
  IF entry.preprocess
    THEN preprocess(text_preprocessor, entry.text)
    ELSE entry.text

\* lines 103-110 of the handler, after the analyzer call: the response
HandlerResponse(text, call) ==
  IF call.propagated
    THEN [ status |-> 500, detail |-> call.exception,
           text |-> text, call |-> call ]
  ELSE IF ~AnalysisResponse(WithTimestamp(call.result))
    THEN [ status |-> 500, detail |-> "validation error",
           text |-> text, call |-> call ]
  ELSE [ status |-> 200, body |-> WithTimestamp(call.result),
         text |-> text, call |-> call ]

\* analyze_journal_entry, after validation: the response, and the call of
\* the analyzer it makes
analyze_journal_entry(entry, sentiment, classifier) ==
  LET text == HandlerText(entry)
  IN  HandlerResponse(text, analyze(text, sentiment, classifier))

---------------------------------------------------------------------------
(* State *)

NoScoreCall == [called |-> FALSE]

NoAnalysis == [called |-> FALSE]

NoHttp == [called |-> FALSE]

\* no method of a TextPreprocessor has been called
NoPrep == [called |-> FALSE]

\* JournalDataLoader.__init__: no method has been called
NoLoaderCall == [method |-> "__init__"]

\* Python's None, as the value of self.model and self.vectorizer; an object
\* built by train is named by the number of the train call that built it
None == 0

\* the model files train.py writes and reads
Paths == {"a.pkl", "b.pkl"}

\* predict has not been called since the last call of another method
NotPredicted == [called |-> FALSE]

\* mood_analyzer = MoodAnalyzer(): the attributes the requests share
MoodAnalyzerInstance == [MOOD_CATEGORIES |-> MOOD_CATEGORIES]

\* this many POST /analyze requests are in flight together
NumRequests == 2

Requests == 1..NumRequests

\* an engine that was not called
NotCalled == [raises |-> TRUE, message |-> "not called"]

\* a request that has not arrived; entry, sentiment and classifier record
\* the body sent and the readings the engines gave to this request
IdleRequest ==
  [pc |-> "idle", overlapped |-> FALSE, sentiment |-> NotCalled,
   classifier |-> NotCalled]

\* the locals of a handler call before any is assigned
NoLocals == [assigned |-> FALSE]

\* locals kept in one place for all calls, as attributes of the instance
Frame_OnInstance(r) == 1

\* the frame of the handler call of request r and of the analyze call it
\* makes: text, polarity, subjectivity, mood, motivation_level are locals
Frame(r) == r

Init ==
  /\ moodLog = << >>
  /\ scoreCall = NoScoreCall
  /\ analysis = NoAnalysis
  /\ http = NoHttp
  /\ prep = NoPrep
  /\ entries = << >>
  /\ loaderCall = NoLoaderCall
  /\ trainer = [model |-> None, vectorizer |-> None, runs |-> 0]
  /\ files = [path \in Paths |-> [kind |-> "absent"]]
  /\ trainerCall = [method |-> "__init__", completed |-> TRUE]
  /\ predicted = NotPredicted
  /\ instance = MoodAnalyzerInstance
  /\ requests = [r \in Requests |-> IdleRequest]
  /\ frames = [f \in { Frame(r) : r \in Requests } |-> NoLocals]

\* moodLog holds the last two calls of get_mood_category, oldest first
Push(log, entry) ==
  IF Len(log) < 2 THEN Append(log, entry) ELSE Append(Tail(log), entry)

GetMoodCategory(polarity) ==
  /\ moodLog' = Push(moodLog, [polarity |-> polarity,
                               category |-> get_mood_category(polarity),
                               fallback |-> FallbackReached(polarity)])
  /\ UNCHANGED <<scoreCall, analysis, http>>
  /\ UNCHANGED otherVars

\* one call of calculate_motivation_score(text, polarity); the classifier
\* either supplies a reading or raises, and then the call raises.  The
\* function keeps no state: a behaviour is one call.
CalculateMotivationScore(text, polarity) ==
  /\ ~scoreCall.called
  /\ \/ \E reading \in ClassifierReadings :
          scoreCall' = [called |-> TRUE, text |-> text, polarity |-> polarity,
                        raised |-> FALSE, reading |-> reading,
                        score |-> calculate_motivation_score(polarity, reading)]
     \/ scoreCall' = [called |-> TRUE, text |-> text, polarity |-> polarity,
                      raised |-> TRUE]
  /\ UNCHANGED <<moodLog, analysis, http>>
  /\ UNCHANGED otherVars

NextScore ==
  \E text \in KeywordSignals, polarity \in PolarityGrid :
    CalculateMotivationScore(text, polarity)

SpecScore == Init /\ [][NextScore]_vars

\* characters of the texts sent to the analyzer and to the API
Chars == {" ", "a", "#"}

\* texts have at most this many characters
MaxTextLen == 2

Texts == UNION { [1..n -> Chars] : n \in 0..MaxTextLen }

\* the record of one call of analyze
AnalysisRecord(text, call) ==
  [ k \in DOMAIN call \cup {"called", "text"} |->
      IF k = "called" THEN TRUE ELSE IF k = "text" THEN text ELSE call[k] ]

\* a direct call  mood_analyzer.analyze(text)
Analyze(text) ==
  /\ ~analysis.called
  /\ ~http.called
  /\ \E sentiment \in SentimentOutcomes, classifier \in ClassifierOutcomes :
       analysis' = AnalysisRecord(text, analyze(text, sentiment, classifier))
  /\ UNCHANGED <<moodLog, scoreCall, http>>
  /\ UNCHANGED otherVars

\* POST /analyze with a body the validation rejects: 422, no handler call
PostRejected(entry) ==
  /\ ~analysis.called
  /\ ~http.called
  /\ ~JournalEntryRequest(entry)
  /\ http' = [called |-> TRUE, entry |-> entry, status |-> 422,
              analyzer_calls |-> 0]
  /\ UNCHANGED <<moodLog, scoreCall, analysis>>
  /\ UNCHANGED otherVars

\* POST /analyze with a valid body: analyze_journal_entry runs
PostAccepted(entry) ==
  /\ ~analysis.called
  /\ ~http.called
  /\ JournalEntryRequest(entry)
  /\ \E sentiment \in SentimentOutcomes, classifier \in ClassifierOutcomes :
       LET response == analyze_journal_entry(entry, sentiment, classifier)
       IN  /\ http' = [ k \in (DOMAIN response \ {"text", "call"})
                                \cup {"called", "entry", "analyzer_calls"} |->
                          IF k = "called" THEN TRUE
                          ELSE IF k = "entry" THEN entry
                          ELSE IF k = "analyzer_calls" THEN 1
                          ELSE response[k] ]
           /\ analysis' = AnalysisRecord(response.text, response.call)
  /\ UNCHANGED <<moodLog, scoreCall>>
  /\ UNCHANGED otherVars

Entries == [ text : Texts, preprocess : BOOLEAN ]

Next ==
  \/ \E text \in Texts : Analyze(text)
  \/ \E entry \in Entries : PostRejected(entry)
  \/ \E entry \in Entries : PostAccepted(entry)

Spec == Init /\ [][Next]_vars

NextMood == \E polarity \in PolarityValues : GetMoodCategory(polarity)

SpecMood == Init /\ [][NextMood]_vars

---------------------------------------------------------------------------
(* Calls of TextPreprocessor.clean_text and TextPreprocessor.preprocess *)

\* characters of the texts given to clean_text: blank, word characters,
\* kept punctuation, special characters
CleanChars == {" ", "a", "w", ".", "#", "@", "h", "t", "p"}

\* these texts have at most this many characters
MaxCleanLen == 5

CleanTexts == UNION { [1..n -> CleanChars] : n \in 0..MaxCleanLen }

\* one call of clean_text
CleanText(text) ==
  /\ ~prep.called
  /\ prep' = [called |-> TRUE, method |-> "clean_text", text |-> text,
              returned |-> clean_text(text)]
  /\ UNCHANGED analyzerVars
  /\ UNCHANGED loaderVars
  /\ UNCHANGED trainerVars
  /\ UNCHANGED serverVars

NextClean == ~prep.called /\ \E text \in CleanTexts : CleanText(text)

SpecClean == Init /\ [][NextClean]_vars

\* characters of the texts given to preprocess: blank, upper and lower case
\* letters (a, s and as are stopwords), a special character
PreChars == {" ", "A", "a", "s", "#"}

\* these texts have at most this many characters
MaxPreLen == 4

PreTexts == UNION { [1..n -> PreChars] : n \in 0..MaxPreLen }

\* TextPreprocessor.__init__(remove_stopwords, lowercase)
TextPreprocessors == [lowercase : BOOLEAN, remove_stopwords : BOOLEAN]

\* one call of preprocess on a TextPreprocessor self
Preprocess(self, text) ==
  /\ ~prep.called
  /\ prep' = [called |-> TRUE, method |-> "preprocess", self |-> self,
              text |-> text, returned |-> preprocess(self, text)]
  /\ UNCHANGED analyzerVars
  /\ UNCHANGED loaderVars
  /\ UNCHANGED trainerVars
  /\ UNCHANGED serverVars

NextPreprocess ==
  /\ ~prep.called
  /\ \E self \in TextPreprocessors, text \in PreTexts : Preprocess(self, text)

SpecPreprocess == Init /\ [][NextPreprocess]_vars

---------------------------------------------------------------------------
(* JournalDataLoader (src/src/data/ingestion.py).  self.entries is the     *)
(* variable entries; a JournalEntry is represented by its text.            *)

\* the texts of journal entries
EntryTexts == {"e1", "e2"}

\* add_entry is called while self.entries has fewer entries than this
MaxEntries == 2

\* a file holds at most this many items or rows
MaxRows == 2

\* the items of a decoded JSON file: dicts with a "text" key, and one without
JsonItems == { [text |-> t] : t \in EntryTexts } \cup { [date |-> "2024-01-01"] }

\* a JSON file: absent, not decodable, or a list of items
JsonFiles ==
  { [exists |-> FALSE], [exists |-> TRUE, decodes |-> FALSE] }
    \cup { [exists |-> TRUE, decodes |-> TRUE, data |-> d] :
             d \in UNION { [1..n -> JsonItems] : n \in 0..MaxRows } }

\* a CSV file: absent, not parsable, or rows with or without the text column
CsvFiles ==
  { [exists |-> FALSE], [exists |-> TRUE, parses |-> FALSE] }
    \cup { [exists |-> TRUE, parses |-> TRUE, has_text_column |-> c, rows |-> r] :
             c \in BOOLEAN,
             r \in UNION { [1..n -> EntryTexts] : n \in 0..MaxRows } }

\* JournalEntry.from_dict: data["text"] raises KeyError without the key
from_dict(data) ==
  IF "text" \in DOMAIN data
    THEN [raised |-> FALSE, entry |-> data.text]
    ELSE [raised |-> TRUE]

\* load_from_json: the value returned, self.entries afterwards, and the
\* branch taken
load_from_json(self_entries, file) ==
  IF ~file.exists
    THEN [returned |-> << >>, entries |-> self_entries, outcome |-> "missing"]
  ELSE IF ~file.decodes
            \/ \E i \in 1..Len(file.data) : from_dict(file.data[i]).raised
    THEN [returned |-> << >>, entries |-> self_entries, outcome |-> "failed"]
  ELSE LET loaded == [i \in 1..Len(file.data) |-> from_dict(file.data[i]).entry]
       IN  [returned |-> loaded, entries |-> loaded, outcome |-> "loaded"]

\* lines 81-97 and 99-101: the loop over the rows from row i on, with
\* self.entries as it is at that point; row[text_column] raises KeyError
\* when the column is absent
RECURSIVE CsvRows(_, _, _)
CsvRows(file, i, self_entries) ==
  IF i > Len(file.rows)
    THEN [returned |-> self_entries, entries |-> self_entries,
          outcome |-> "loaded"]
  ELSE IF ~file.has_text_column
    THEN [returned |-> << >>, entries |-> self_entries, outcome |-> "failed"]
  ELSE CsvRows(file, i + 1, Append(self_entries, file.rows[i]))

\* load_from_csv; line 80 empties self.entries before the loop
load_from_csv(self_entries, file) ==
  IF ~file.exists
    THEN [returned |-> << >>, entries |-> self_entries, outcome |-> "missing"]
  ELSE IF ~file.parses
    THEN [returned |-> << >>, entries |-> self_entries, outcome |-> "failed"]
  ELSE CsvRows(file, 1, << >>)

\* add_entry
AddEntry(entry) ==
  /\ Len(entries) < MaxEntries
  /\ entries' = Append(entries, entry)
  /\ loaderCall' = [method |-> "add_entry", before |-> entries]
  /\ UNCHANGED analyzerVars
  /\ UNCHANGED prep
  /\ UNCHANGED trainerVars
  /\ UNCHANGED serverVars

LoaderCall(method, before, call) ==
  [method |-> method, before |-> before, returned |-> call.returned,
   outcome |-> call.outcome]

LoadFromJson(file) ==
  LET call == load_from_json(entries, file)
  IN  /\ entries' = call.entries
      /\ loaderCall' = LoaderCall("load_from_json", entries, call)
      /\ UNCHANGED analyzerVars
      /\ UNCHANGED prep
      /\ UNCHANGED trainerVars
      /\ UNCHANGED serverVars

LoadFromCsv(file) ==
  LET call == load_from_csv(entries, file)
  IN  /\ entries' = call.entries
      /\ loaderCall' = LoaderCall("load_from_csv", entries, call)
      /\ UNCHANGED analyzerVars
      /\ UNCHANGED prep
      /\ UNCHANGED trainerVars
      /\ UNCHANGED serverVars

NextLoader ==
  \/ \E entry \in EntryTexts : AddEntry(entry)
  \/ \E file \in JsonFiles : LoadFromJson(file)
  \/ \E file \in CsvFiles : LoadFromCsv(file)

SpecLoader == Init /\ [][NextLoader]_vars

---------------------------------------------------------------------------
(* MoodModelTrainer (src/src/models/train.py).  trainer holds self.model   *)
(* and self.vectorizer; files holds what is on disk under each path.       *)

\* train is called at most this many times
MaxTrains == 2

\* where a call of train stops: before line 74, after it (the vectorizer is
\* assigned), after line 80 (the model is assigned too), or at its return
TrainStops == {"before_vectorizer", "after_vectorizer", "after_model",
               "return"}

\* train, stopping at the given point
train(self, stop) ==
  LET run == self.runs + 1
      vectorizer == IF stop = "before_vectorizer" THEN self.vectorizer ELSE run
      model == IF stop \in {"after_model", "return"} THEN run ELSE self.model
  IN  [model |-> model, vectorizer |-> vectorizer, runs |-> run]

\* the dict save_model pickles
Pickled(self) ==
  [kind |-> "pickle", model |-> self.model, vectorizer |-> self.vectorizer]

\* a guard that raises only when both attributes are None
predict_BothNone(self) ==
  IF self.model = None /\ self.vectorizer = None
    THEN [called |-> TRUE, raised |-> "Model not trained or loaded"]
    ELSE [called |-> TRUE, raised |-> "nothing"]

\* predict, up to the guard of lines 137-138
predict(self) ==
  IF self.model = None \/ self.vectorizer = None
    THEN [called |-> TRUE, raised |-> "Model not trained or loaded"]
    ELSE [called |-> TRUE, raised |-> "nothing"]

Train(stop) ==
  /\ trainer.runs < MaxTrains
  /\ trainer' = train(trainer, stop)
  /\ trainerCall' = [method |-> "train", completed |-> (stop = "return")]
  /\ predicted' = NotPredicted
  /\ UNCHANGED files
  /\ UNCHANGED analyzerVars
  /\ UNCHANGED <<prep, entries, loaderCall>>
  /\ UNCHANGED serverVars

\* save_model: it completes, or open fails, or the write fails part-way
SaveModel(model_path, outcome) ==
  /\ files' = [files EXCEPT ![model_path] =
                 CASE outcome = "completed" -> Pickled(trainer)
                   [] outcome = "open_failed" -> @
                   [] outcome = "write_failed" -> [kind |-> "corrupt"]]
  /\ trainerCall' = [method |-> "save_model", path |-> model_path,
                     completed |-> (outcome = "completed")]
  /\ predicted' = NotPredicted
  /\ UNCHANGED trainer
  /\ UNCHANGED analyzerVars
  /\ UNCHANGED <<prep, entries, loaderCall>>
  /\ UNCHANGED serverVars

\* load_model: open raises for an absent file, pickle.load for a corrupt one
LoadModel(model_path) ==
  LET data == files[model_path]
      completed == data.kind = "pickle"
  IN  /\ trainer' = IF completed
                      THEN [trainer EXCEPT !.model = data.model,
                                           !.vectorizer = data.vectorizer]
                      ELSE trainer
      /\ trainerCall' =
           [method |-> "load_model", path |-> model_path,
            completed |-> completed, data |-> data, before |-> trainer,
            after_save |-> /\ trainerCall.method = "save_model"
                           /\ trainerCall.completed
                           /\ trainerCall.path = model_path]
      /\ predicted' = NotPredicted
      /\ UNCHANGED files
      /\ UNCHANGED analyzerVars
      /\ UNCHANGED <<prep, entries, loaderCall>>
      /\ UNCHANGED serverVars

Predict ==
  /\ ~predicted.called
  /\ predicted' = predict(trainer)
  /\ UNCHANGED <<trainer, files, trainerCall>>
  /\ UNCHANGED analyzerVars
  /\ UNCHANGED <<prep, entries, loaderCall>>
  /\ UNCHANGED serverVars

NextTrainer ==
  \/ \E stop \in TrainStops : Train(stop)
  \/ \E model_path \in Paths,
         outcome \in {"completed", "open_failed", "write_failed"} :
       SaveModel(model_path, outcome)
  \/ \E model_path \in Paths : LoadModel(model_path)
  \/ Predict

SpecTrainer == Init /\ [][NextTrainer]_vars

---------------------------------------------------------------------------
(* Concurrent POST /analyze requests on the one MoodAnalyzer instance of   *)
(* api/main.py.  A request runs the handler in steps; the steps of         *)
(* different requests interleave in any order.                             *)

\* the bodies sent
ServerEntries ==
  { [text |-> << >>, preprocess |-> FALSE],
    [text |-> <<" ">>, preprocess |-> TRUE],
    [text |-> <<"a">>, preprocess |-> FALSE],
    [text |-> <<"a", " ">>, preprocess |-> TRUE] }

\* what the sentiment engine does for these requests
ServerSentiments ==
  { o \in SentimentOutcomes :
      o.raises \/ (o.polarity \in {-6000, 7999} /\ o.subjectivity = 0) }

\* what the classifier does for these requests
ServerClassifiers ==
  { o \in ClassifierOutcomes :
      o.raises \/ (o.reading.tf_score \in {5, ConfScale}
                     /\ o.reading.sim["neutral"] = 7) }

InFlight(r) == requests[r].pc \notin {"idle", "done"}

\* the request arrives: validation, then the handler assigns text
Receive(r, entry) ==
  /\ requests[r].pc = "idle"
  /\ LET overlapped == \E q \in Requests \ {r} : InFlight(q)
     IN  IF ~JournalEntryRequest(entry)
           THEN /\ requests' = [requests EXCEPT ![r] =
                     [@ EXCEPT !.pc = "done", !.overlapped = overlapped]
                       @@ [entry |-> entry, response |-> [status |-> 422]]]
                /\ UNCHANGED frames
           ELSE /\ requests' = [requests EXCEPT ![r] =
                     [@ EXCEPT !.pc = "sentiment", !.overlapped = overlapped]
                       @@ [entry |-> entry]]
                /\ frames' = [frames EXCEPT ![Frame(r)] =
                     [assigned |-> TRUE, text |-> HandlerText(entry)]]
  /\ UNCHANGED instance
  /\ UNCHANGED analyzerVars
  /\ UNCHANGED <<prep, entries, loaderCall>>
  /\ UNCHANGED trainerVars

\* analyze up to line 141: the empty-input return, or the sentiment engine
\* is called and gives outcome
AnalyzeSentiment(r, outcome) ==
  /\ requests[r].pc = "sentiment"
  /\ LET locals == frames[Frame(r)]
     IN  IF IsEmptyInput(locals.text)
           THEN /\ requests' = [requests EXCEPT ![r].pc = "respond"]
                /\ frames' = [frames EXCEPT ![Frame(r)] =
                     locals @@ [call |-> analyze(locals.text, NotCalled,
                                                 NotCalled)]]
         ELSE IF outcome.raises
           THEN /\ requests' = [requests EXCEPT ![r].pc = "respond",
                                                ![r].sentiment = outcome]
                /\ frames' = [frames EXCEPT ![Frame(r)] =
                     locals @@ [call |-> analyze(locals.text, outcome,
                                                 NotCalled)]]
         ELSE /\ requests' = [requests EXCEPT ![r].pc = "score",
                                              ![r].sentiment = outcome]
              /\ frames' = [frames EXCEPT ![Frame(r)] =
                   locals @@ [sentiment |-> outcome]]
  /\ UNCHANGED instance
  /\ UNCHANGED analyzerVars
  /\ UNCHANGED <<prep, entries, loaderCall>>
  /\ UNCHANGED trainerVars

\* analyze from line 144 to its return: the classifier is called and gives
\* outcome
AnalyzeScore(r, outcome) ==
  /\ requests[r].pc = "score"
  /\ LET locals == frames[Frame(r)]
     IN  frames' = [frames EXCEPT ![Frame(r)] =
           locals @@ [call |-> analyze(locals.text, locals.sentiment, outcome)]]
  /\ requests' = [requests EXCEPT ![r].pc = "respond",
                                  ![r].classifier = outcome]
  /\ UNCHANGED instance
  /\ UNCHANGED analyzerVars
  /\ UNCHANGED <<prep, entries, loaderCall>>
  /\ UNCHANGED trainerVars

\* the handler builds the response from the result of analyze
Respond(r) ==
  /\ requests[r].pc = "respond"
  /\ LET locals == frames[Frame(r)]
     IN  requests' = [requests EXCEPT ![r] =
           [@ EXCEPT !.pc = "done"]
             @@ [response |-> HandlerResponse(locals.text, locals.call)]]
  /\ UNCHANGED <<instance, frames>>
  /\ UNCHANGED analyzerVars
  /\ UNCHANGED <<prep, entries, loaderCall>>
  /\ UNCHANGED trainerVars

NextServer ==
  \/ \E r \in Requests, entry \in ServerEntries : Receive(r, entry)
  \/ \E r \in Requests, outcome \in ServerSentiments :
       AnalyzeSentiment(r, outcome)
  \/ \E r \in Requests, outcome \in ServerClassifiers :
       AnalyzeScore(r, outcome)
  \/ \E r \in Requests : Respond(r)

SpecServer == Init /\ [][NextServer]_vars

---------------------------------------------------------------------------
(* Claims about get_mood_category *)

LoggedCalls == { moodLog[i] : i \in 1..Len(moodLog) }

C1_Intervals ==
  [ very_negative |-> <<-10000, -6000>>,
    negative      |-> <<-6000, -2000>>,
    neutral       |-> <<-2000, 2000>>,
    positive      |-> <<2000, 6000>>,
    very_positive |-> <<6000, 10000>> ]

\* C1: for every polarity p with -1.0 <= p < 1.0, get_mood_category(p) is the
\* one category of MOOD_CATEGORIES whose half-open interval [lower, upper)
\* contains p (very_negative [-1.0,-0.6), negative [-0.6,-0.2), neutral
\* [-0.2,0.2), positive [0.2,0.6), very_positive [0.6,1.0)); for p = 1.0 it
\* is very_positive.
C1_BucketOfPolarity ==
  \A call \in LoggedCalls :
    LET p == call.polarity
        c == call.category
    IN  /\ (-PolScale <= p /\ p < PolScale) =>
              /\ c \in DOMAIN C1_Intervals
              /\ C1_Intervals[c][1] <= p /\ p < C1_Intervals[c][2]
              /\ \A i \in 1..Len(MOOD_CATEGORIES) :
                    (MOOD_CATEGORIES[i].lower <= p /\ p < MOOD_CATEGORIES[i].upper)
                      <=> MOOD_CATEGORIES[i].name = c
        /\ (p = PolScale) => c = "very_positive"

\* the log holds a call at the boundary -0.6 and a call at 1.0
C1_Witness ==
  /\ Len(moodLog) = 2
  /\ moodLog[1].polarity = -6000 /\ moodLog[1].category = "negative"
  /\ moodLog[2].polarity = PolScale /\ moodLog[2].category = "very_positive"

C2_Rank ==
  [ very_negative |-> 1, negative |-> 2, neutral |-> 3,
    positive |-> 4, very_positive |-> 5 ]

\* C2: for all polarities p <= q in [-1,1], get_mood_category returns one of
\* the five labels for each, and the label of q is never more negative than
\* the label of p in the order very_negative < negative < neutral < positive
\* < very_positive.
C2_Monotonic ==
  \A a \in LoggedCalls, b \in LoggedCalls :
    /\ a.category \in DOMAIN C2_Rank
    /\ (a.polarity <= b.polarity) =>
          C2_Rank[a.category] <= C2_Rank[b.category]

\* two calls with different labels, the second at the boundary 0.2 and the
\* first just below it
C2_Witness ==
  /\ Len(moodLog) = 2
  /\ moodLog[1].polarity = 1999 /\ moodLog[1].category = "neutral"
  /\ moodLog[2].polarity = 2000 /\ moodLog[2].category = "positive"

\* C12: within [-1,1] the fallback return of get_mood_category is reached
\* only for polarity exactly 1.0; polarity exactly 0.6 is classified
\* very_positive, not positive, and every other boundary value (-0.6, -0.2,
\* 0.2) belongs to the bucket of which it is the lower bound.
C12_FallbackAndBoundaries ==
  \A call \in LoggedCalls :
    /\ call.fallback <=> (call.polarity = 10000)
    /\ (call.polarity = 6000) => call.category = "very_positive"
    /\ (call.polarity = -6000) => call.category = "negative"
    /\ (call.polarity = -2000) => call.category = "neutral"
    /\ (call.polarity = 2000) => call.category = "positive"

\* a call at 0.6 matched in the loop, then a call at 1.0 took the fallback
C12_Witness ==
  /\ Len(moodLog) = 2
  /\ moodLog[1].polarity = 6000 /\ ~moodLog[1].fallback
  /\ moodLog[1].category = "very_positive"
  /\ moodLog[2].polarity = 10000 /\ moodLog[2].fallback

---------------------------------------------------------------------------
(* Claims about calculate_motivation_score *)

ScoreReturned == scoreCall.called /\ ~scoreCall.raised

\* C3: the motivation score returned by calculate_motivation_score is always
\* within [0,100], for any text, any polarity in [-1,1] and any reading of
\* the external classifier.
C3_ScoreInRange ==
  ScoreReturned =>
    /\ 0 <= scoreCall.score
    /\ scoreCall.score <= 100 * ScoreScale

\* a call whose unclipped score is above 100: polarity 1.0, confidence 1.0
\* and a similarity above 1.0; it returns 100
C3_Witness ==
  /\ ScoreReturned
  /\ scoreCall.polarity = PolScale
  /\ scoreCall.reading.tf_score = ConfScale
  /\ \E m \in MoodNames : scoreCall.reading.sim[m] > ConfScale
  /\ scoreCall.score = 100 * ScoreScale

\* clamp(x, lo, hi) as the claims use it
C10_Clamp(x, lo, hi) == IF x < lo THEN lo ELSE IF x > hi THEN hi ELSE x

\* the score of the keyword-weighted policy, times (high + low), in units of
\* 1/ScoreScale, before clamping; for high + low = 0 the keyword score is 0
\* and this is the score itself:
\*   (0.6 * polarity + 0.4 * (high - low)/(high + low) + 1) * 50
C10_KeywordScoreTimes(d, text, polarity) ==
  50 * ScoreScale * d
    + (30 * ScoreScale * polarity * d) \div PolScale
    + (IF text.high + text.low = 0 THEN 0
       ELSE 20 * ScoreScale * (text.high - text.low))

\* C10 as stated: the motivation score follows the keyword-weighted policy,
\* score = clamp((0.6*polarity + 0.4*keyword_score + 1)*50, 0, 100) with
\* keyword_score = (high - low)/(high + low), or 0 when high + low = 0; so 3
\* high-motivation keywords, no low-motivation keyword and polarity 0.5 give
\* 85.0 and category "high", and no keyword with polarity 0.0 gives 50.0 and
\* category "moderate".
C10_KeywordPolicy ==
  ScoreReturned =>
    LET text == scoreCall.text
        d == IF text.high + text.low = 0 THEN 1 ELSE text.high + text.low
    IN  /\ scoreCall.score * d =
             C10_Clamp(C10_KeywordScoreTimes(d, text, scoreCall.polarity),
                       0, 100 * ScoreScale * d)
        /\ (text.high = 3 /\ text.low = 0 /\ 2 * scoreCall.polarity = PolScale)
             => /\ scoreCall.score = 85 * ScoreScale
                /\ MotivationCategory(scoreCall.score) = "high"
        /\ (text.high = 0 /\ text.low = 0 /\ scoreCall.polarity = 0)
             => /\ scoreCall.score = 50 * ScoreScale
                /\ MotivationCategory(scoreCall.score) = "moderate"

\* C10, amended: the motivation score does not follow the keyword-weighted
\* policy; it is clamp((0.5*polarity + 0.5*highest*confidence + 1)*50, 0, 100)
\* with highest >= confidence, so it is at least
\* (0.5*polarity + 0.5*confidence^2 + 1)*50 clamped to [0,100], whatever the
\* keyword counts: polarity 0.5 gives at least 62.5 (also with 3 high and no
\* low keywords), and polarity 0.0 gives at least 50.0, exactly 50.0 only for
\* confidence 0, with category "moderate" or "high".
C10_ClassifierPolicyFloor ==
  ScoreReturned =>
    LET p == scoreCall.polarity
        c == scoreCall.reading.tf_score
        floor == 50 * ScoreScale
                   + (25 * ScoreScale * p) \div PolScale
                   + (25 * ScoreScale * c * c) \div (ConfScale * ConfScale)
    IN  /\ scoreCall.score >= C10_Clamp(floor, 0, 100 * ScoreScale)
        /\ (2 * p = PolScale) => 2 * scoreCall.score >= 125 * ScoreScale
        /\ (p = 0) =>
             /\ scoreCall.score >= 50 * ScoreScale
             /\ (scoreCall.score = 50 * ScoreScale) <=> (c = 0)
             /\ MotivationCategory(scoreCall.score) \in {"moderate", "high"}

\* 3 high and no low keywords with polarity 0.5, and a score that is not
\* the 85.0 of the keyword policy
C10_Witness ==
  /\ ScoreReturned
  /\ scoreCall.text = [high |-> 3, low |-> 0]
  /\ 2 * scoreCall.polarity = PolScale
  /\ scoreCall.reading.tf_score = ConfScale
  /\ scoreCall.score = 90 * ScoreScale

\* the largest element of a non-empty set of integers
C11_Max(S) == CHOOSE x \in S : \A y \in S : y <= x

\* C11: under the external-classifier-weighted policy, with confidence c and
\* the label of the classifier output, calculate_motivation_score computes
\* highest = max(c, maximum over the five mood category names of the
\* similarity between the label and the name),
\* combined = 0.5*polarity + 0.5*highest*c, and returns (combined + 1)*50
\* clamped to [0,100].
C11_ClassifierPolicy ==
  ScoreReturned =>
    LET c == scoreCall.reading.tf_score
        names == { "very_negative", "negative", "neutral", "positive",
                   "very_positive" }
        highest == C11_Max({c} \cup { scoreCall.reading.sim[n] : n \in names })
        \* (0.5*p + 0.5*highest*c + 1) * 50 in units of 1/ScoreScale
        unclamped == 50 * ScoreScale
                       + (25 * ScoreScale * scoreCall.polarity) \div PolScale
                       + (25 * ScoreScale * highest * c)
                           \div (ConfScale * ConfScale)
    IN  /\ DOMAIN scoreCall.reading.sim = names
        /\ scoreCall.score =
             IF unclamped < 0 THEN 0
             ELSE IF unclamped > 100 * ScoreScale THEN 100 * ScoreScale
             ELSE unclamped

\* the first similarity is the largest, the last one lies between the
\* confidence and the largest
C11_Witness ==
  /\ ScoreReturned
  /\ scoreCall.polarity = 0
  /\ scoreCall.reading.tf_score = 5
  /\ scoreCall.reading.sim["very_negative"] = 11
  /\ scoreCall.reading.sim["very_positive"] = 7
  /\ scoreCall.score = 50 * ScoreScale + (25 * ScoreScale * 55) \div 100

---------------------------------------------------------------------------
(* Claims about analyze and POST /analyze *)

\* C4: in analyze, the motivation category is a total function of the
\* computed motivation score that partitions [0,100]: score >= 70 gives
\* "high", 40 <= score < 70 gives "moderate", score < 40 gives "low".
C4_CategoryPartition ==
  (analysis.called /\ analysis.path = "success") =>
    LET score == analysis.motivation_level
        category == analysis.result.motivation_category
    IN  /\ 0 <= score /\ score <= 100 * ScoreScale
        /\ category \in {"high", "moderate", "low"}
        /\ (category = "high") <=> (score >= 70 * ScoreScale)
        /\ (category = "moderate") <=>
             (40 * ScoreScale <= score /\ score < 70 * ScoreScale)
        /\ (category = "low") <=> (score < 40 * ScoreScale)

\* a success whose score is exactly 70
C4_Witness ==
  /\ analysis.called
  /\ analysis.path = "success"
  /\ analysis.motivation_level = 70 * ScoreScale
  /\ analysis.result.motivation_category = "high"

\* C5: for every text that is empty or only whitespace, analyze returns the
\* sentinel result: error set, mood "neutral", motivation_level exactly 50.0,
\* polarity and subjectivity 0.0; and neither the sentiment engine nor the
\* classifier is called.
C5_BlankGivesSentinel ==
  (analysis.called /\ IsBlank(analysis.text)) =>
    /\ ~analysis.propagated
    /\ "error" \in DOMAIN analysis.result
    /\ analysis.result.error = "Empty text provided"
    /\ analysis.result.mood = "neutral"
    /\ analysis.result.motivation_level = 5000
    /\ analysis.result.sentiment = [polarity |-> 0, subjectivity |-> 0]
    /\ analysis.sentiment_calls = 0
    /\ analysis.classifier_calls = 0

\* a direct call of analyze with a text of two blanks
C5_Witness ==
  /\ analysis.called
  /\ ~http.called
  /\ analysis.text = <<" ", " ">>
  /\ analysis.path = "empty"

\* C6: analyze never propagates a failure to its caller: whenever the
\* sentiment engine or the scoring raises for a non-empty text, analyze
\* returns the sentinel result (mood "neutral", motivation_level 50.0, zero
\* sentiment) with the exception message in the error field.
C6_FailureGivesSentinel ==
  analysis.called =>
    /\ ~analysis.propagated
    /\ analysis.raised =>
         /\ ~IsBlank(analysis.text)
         /\ "error" \in DOMAIN analysis.result
         /\ analysis.result.error = analysis.exception
         /\ analysis.result.mood = "neutral"
         /\ analysis.result.motivation_level = 5000
         /\ analysis.result.sentiment = [polarity |-> 0, subjectivity |-> 0]

\* the classifier raised after the sentiment engine answered
C6_Witness ==
  /\ analysis.called
  /\ analysis.raised
  /\ analysis.sentiment_calls = 1
  /\ analysis.classifier_calls = 1
  /\ analysis.result.error = "classifier failed"

\* C7 as stated: every result returned by analyze, on the success path and
\* on both sentinel paths, contains all fields of the Analysis Result record:
\* mood, motivation_level, motivation_category, sentiment.polarity,
\* sentiment.subjectivity, text_length and word_count; error is the only
\* optional field.
C7_AllFields ==
  (analysis.called /\ ~analysis.propagated) =>
    /\ { "mood", "motivation_level", "motivation_category", "sentiment",
         "text_length", "word_count" } \subseteq DOMAIN analysis.result
    /\ DOMAIN analysis.result.sentiment = {"polarity", "subjectivity"}

\* C8 as stated: every request that passes validation (text of length >= 1,
\* whitespace-only text and text that cleaning empties included) gets status
\* 200 and an analysis body; errors of the analysis never surface as a 500.
C8_ValidRequestGets200 ==
  (http.called /\ Len(http.entry.text) >= 1) =>
    /\ http.status = 200
    /\ "body" \in DOMAIN http
    /\ "mood" \in DOMAIN http.body

\* C9: POST /analyze with an empty text is rejected by request validation
\* with status 422, and the analyzer is never invoked for that request.
C9_EmptyTextRejected ==
  (http.called /\ http.entry.text = << >>) =>
    /\ http.status = 422
    /\ http.analyzer_calls = 0
    /\ ~analysis.called

\* an empty text was posted and answered
C9_Witness ==
  /\ http.called
  /\ http.entry.text = << >>
  /\ http.status = 422

\* C14: whenever analyze reports mood "neutral", the reported polarity
\* (rounded to 3 decimals) lies in [-0.2, 0.2]; this holds on the success
\* path and on the sentinel paths.
C14_NeutralPolarity ==
  (analysis.called /\ ~analysis.propagated
     /\ analysis.result.mood = "neutral") =>
    /\ -200 <= analysis.result.sentiment.polarity
    /\ analysis.result.sentiment.polarity <= 200

\* a success with polarity 0.1999: neutral, reported as 0.2
C14_Witness ==
  /\ analysis.called
  /\ analysis.path = "success"
  /\ analysis.polarity = 1999
  /\ analysis.result.mood = "neutral"
  /\ analysis.result.sentiment.polarity = 200

\* C18: in every success result of analyze, the reported motivation_category
\* agrees with the thresholds applied to the reported motivation_level
\* (rounded to 2 decimals): the reported level is >= 70 exactly when the
\* category is "high", and < 40 exactly when the category is "low".
C18_CategoryOfReportedLevel ==
  (analysis.called /\ analysis.path = "success") =>
    LET level == analysis.result.motivation_level
        category == analysis.result.motivation_category
    IN  /\ (level >= 7000) <=> (category = "high")
        /\ (level < 4000) <=> (category = "low")

---------------------------------------------------------------------------
(* Claims about TextPreprocessor *)

\* sub occurs in text as a substring
C15_Contains(text, sub) ==
  \E i \in 1..Len(text) :
    /\ i + Len(sub) - 1 <= Len(text)
    /\ SubSeq(text, i, i + Len(sub) - 1) = sub

\* C15: for every input text, the output of clean_text contains no URL
\* remnant: it contains neither the substring "https://" nor the substring
\* "www.".
C15_NoUrlRemnant ==
  (prep.called /\ prep.method = "clean_text") =>
    /\ ~C15_Contains(prep.returned, <<"h", "t", "t", "p", "s", ":", "/", "/">>)
    /\ ~C15_Contains(prep.returned, <<"w", "w", "w", ".">>)

\* the words of a text of word characters and spaces
RECURSIVE C16_Words(_)
C16_Words(text) ==
  IF text = << >> THEN << >>
  ELSE IF Head(text) = " " THEN C16_Words(Tail(text))
  ELSE LET rest == C16_Words(Tail(text))
       IN  IF Len(text) > 1 /\ text[2] # " "
             THEN <<<<Head(text)>> \o Head(rest)>> \o Tail(rest)
             ELSE <<<<Head(text)>>>> \o rest

\* words joined by single spaces
RECURSIVE C16_SingleSpaced(_)
C16_SingleSpaced(words) ==
  IF words = << >> THEN << >>
  ELSE IF Len(words) = 1 THEN Head(words)
  ELSE Head(words) \o <<" ">> \o C16_SingleSpaced(Tail(words))

\* C16: the output of clean_text has no two consecutive whitespace
\* characters, no leading or trailing whitespace and no "@" character; a
\* text of words separated by runs of spaces is returned with single spaces
\* and the words unchanged.
C16_NormalisedWhitespace ==
  (prep.called /\ prep.method = "clean_text") =>
    LET out == prep.returned
        blank == {" ", "\t", "\n"}
        letters == {"a", "w", "h", "t", "p"}
    IN  /\ \A i \in 1..(Len(out) - 1) : ~(out[i] \in blank /\ out[i+1] \in blank)
        /\ out # << >> => (out[1] \notin blank /\ out[Len(out)] \notin blank)
        /\ \A i \in 1..Len(out) : out[i] # "@"
        /\ (\A i \in 1..Len(prep.text) : prep.text[i] \in letters \cup {" "})
             => out = C16_SingleSpaced(C16_Words(prep.text))

\* C17 as stated: preprocess with lowercase=True returns the lowercased
\* result of clean_text (no uppercase letter remains), and with
\* lowercase=False and remove_stopwords=False returns exactly
\* clean_text(text) with case preserved; the preprocessor used by
\* POST /analyze when preprocess=true is of the second kind.
C17_LowercaseOrIdentity ==
  /\ text_preprocessor = [lowercase |-> FALSE, remove_stopwords |-> FALSE]
  /\ (prep.called /\ prep.method = "preprocess") =>
       /\ prep.self.lowercase =>
            /\ prep.returned = Lower(clean_text(prep.text))
            /\ \A i \in 1..Len(prep.returned) :
                 prep.returned[i] \notin {"A", "B", "W"}
       /\ (~prep.self.lowercase /\ ~prep.self.remove_stopwords) =>
            prep.returned = clean_text(prep.text)

\* the tokens of a single-spaced text that are not in the stopword list
RECURSIVE C17_WithoutStopwords(_)
C17_WithoutStopwords(words) ==
  IF words = << >> THEN << >>
  ELSE IF Head(words) \in STOPWORDS THEN C17_WithoutStopwords(Tail(words))
  ELSE <<Head(words)>> \o C17_WithoutStopwords(Tail(words))

\* C17, amended: preprocess with lowercase=True and remove_stopwords=False
\* returns the lowercased result of clean_text; with lowercase=True and
\* remove_stopwords=True it returns that lowercased text without its
\* stopword tokens; in both cases no uppercase letter remains.  With
\* lowercase=False and remove_stopwords=False it returns exactly
\* clean_text(text) with case preserved, and the preprocessor used by
\* POST /analyze when preprocess=true is of that kind.
C17_LowercaseThenStopwords ==
  /\ text_preprocessor = [lowercase |-> FALSE, remove_stopwords |-> FALSE]
  /\ (prep.called /\ prep.method = "preprocess") =>
       LET lowered == Lower(clean_text(prep.text))
       IN  /\ (prep.self.lowercase /\ ~prep.self.remove_stopwords) =>
                prep.returned = lowered
           /\ (prep.self.lowercase /\ prep.self.remove_stopwords) =>
                prep.returned =
                  C16_SingleSpaced(C17_WithoutStopwords(C16_Words(lowered)))
           /\ prep.self.lowercase =>
                \A i \in 1..Len(prep.returned) :
                  prep.returned[i] \notin {"A", "B", "W"}
           /\ (~prep.self.lowercase /\ ~prep.self.remove_stopwords) =>
                prep.returned = clean_text(prep.text)

\* a lowercasing, stopword-removing preprocessor given "A sA": the stopword
\* "a" goes, "sa" stays
C17_Witness ==
  /\ prep.called
  /\ prep.method = "preprocess"
  /\ prep.self = [lowercase |-> TRUE, remove_stopwords |-> TRUE]
  /\ prep.text = <<"A", " ", "s", "A">>
  /\ prep.returned = <<"s", "a">>

---------------------------------------------------------------------------
(* Claims about JournalDataLoader *)

\* C19: any call of load_from_json or load_from_csv that returns the empty
\* list because the file is missing or because loading failed leaves
\* self.entries exactly as it was before the call, after any sequence of
\* add_entry and load operations.
C19_FailedLoadKeepsEntries ==
  (/\ loaderCall.method \in {"load_from_json", "load_from_csv"}
   /\ loaderCall.outcome \in {"missing", "failed"}) =>
    /\ loaderCall.returned = << >>
    /\ entries = loaderCall.before

---------------------------------------------------------------------------
(* Claims about MoodModelTrainer *)

\* predict raised ValueError("Model not trained or loaded")
C20_Unusable(outcome) == outcome.raised = "Model not trained or loaded"

\* the part of C20 that holds as stated: predict raises the error in every
\* state where model or vectorizer is None, not after a completed train,
\* and a save_model followed by a load_model of the same path preserves
\* whether predict is usable
C20_GuardTrainRoundTrip ==
  /\ (trainer.model = 0 \/ trainer.vectorizer = 0) => C20_Unusable(predicted)
  /\ (trainerCall.method = "train" /\ trainerCall.completed)
       => ~C20_Unusable(predicted)
  /\ (trainerCall.method = "load_model" /\ trainerCall.completed
        /\ trainerCall.after_save)
       => (C20_Unusable(predicted) <=>
             (trainerCall.before.model = 0 \/ trainerCall.before.vectorizer = 0))

\* C20 as stated: predict raises ValueError("Model not trained or loaded")
\* in every state where model or vectorizer is None, and in every state
\* reached by a completed train or load_model call it does not raise that
\* error; in particular save_model followed by load_model preserves whether
\* predict is usable.
C20_PredictUsable ==
  predicted.called =>
    /\ C20_GuardTrainRoundTrip
    /\ (trainerCall.method = "load_model" /\ trainerCall.completed)
         => ~C20_Unusable(predicted)

\* C20, amended: predict raises ValueError("Model not trained or loaded") in
\* every state where model or vectorizer is None; in every state reached by
\* a completed train call it does not raise that error; in a state reached
\* by a completed load_model call it raises that error exactly when the
\* model or the vectorizer saved in the file is None, as in a file that
\* save_model wrote for a trainer that was never trained; save_model
\* followed by load_model preserves whether predict is usable.
C20_PredictUsableAsSaved ==
  predicted.called =>
    /\ C20_GuardTrainRoundTrip
    /\ (trainerCall.method = "load_model" /\ trainerCall.completed)
         => (C20_Unusable(predicted) <=>
               (trainerCall.data.model = 0 \/ trainerCall.data.vectorizer = 0))

\* a trained trainer loads a file that was saved while model and vectorizer
\* were None: predict raises after a completed load_model
C20_Witness ==
  /\ predicted.called
  /\ trainerCall.method = "load_model"
  /\ trainerCall.completed
  /\ trainerCall.before.model # 0
  /\ trainerCall.before.vectorizer # 0
  /\ trainer.model = 0
  /\ C20_Unusable(predicted)

---------------------------------------------------------------------------
(* Claims about concurrent requests *)

\* the response request r gets when it runs alone with the same body and
\* the same readings of the external engines
C13_Alone(r) ==
  IF Len(requests[r].entry.text) < 1
    THEN [status |-> 422]
    ELSE analyze_journal_entry(requests[r].entry, requests[r].sentiment,
                               requests[r].classifier)

\* C13: analyze is stateless: no call modifies MOOD_CATEGORIES or any other
\* state of the shared MoodAnalyzer instance, so for any interleaving of
\* concurrent /analyze requests each request gets the same result it would
\* get alone with the same text and the same external readings.
C13_Stateless ==
  /\ instance = [MOOD_CATEGORIES |-> MOOD_CATEGORIES]
  /\ \A r \in DOMAIN requests :
       requests[r].pc = "done" => requests[r].response = C13_Alone(r)

\* request 1 arrived while request 2 was in flight; both are answered 200,
\* with different moods
C13_Witness ==
  /\ requests[1].pc = "done" /\ requests[2].pc = "done"
  /\ requests[1].overlapped
  /\ requests[1].response.status = 200
  /\ requests[2].response.status = 200
  /\ requests[1].response.body.mood = "very_positive"
  /\ requests[2].response.body.mood = "negative"

===========================================================================
